---- MODULE Spec2Model ----
(***************************************************************************)
(* Model of the maze solver in src/src/main.rs: Grid::new parses the maze  *)
(* text into a vector of cells, main runs the best-first search over the   *)
(* grid with a BinaryHeap (open_set) and a HashSet (closed_set), and then  *)
(* walks parent_coord links back from the exit to build the path.          *)
(*                                                                         *)
(* Coordinates are 0-based as in the source; TLA+ sequences are 1-based,   *)
(* so cells[i] of the source is cells[i + 1] here.                         *)
(***************************************************************************)
EXTENDS Integers, Sequences, FiniteSets, TLC

\* Bounds of the inputs explored.
MaxCells == 9
MaxTextLen == 5

VARIABLES
    readable,           \* whether read_to_string succeeds on the maze file
    text,               \* the content of the maze file, a sequence of characters
    result,             \* what Grid::new returned: "None" (not called yet), "Ok",
                        \* "Err", or "Panicked" (it did not return)
    pc,                 \* position in main: "start", "built", "search", "backtrack", "done", "panic"
    width, height, entrance_location, exit_location, cells,   \* the Grid
    open_set,           \* BinaryHeap<Cell>
    closed_set,         \* HashSet<Coordinate>
    current_cell,       \* current_cell of the search loop (line 125)
    bt_cell,            \* current_cell of the backtrack loop (line 192, shadows the first)
    path,               \* Vec<Coordinate>
    out                 \* lines printed so far

vars == <<readable, text, result, pc, width, height, entrance_location, exit_location, cells,
          open_set, closed_set, current_cell, bt_cell, path, out>>

input == <<readable, text>>

grid == <<width, height, entrance_location, exit_location, cells>>

-----------------------------------------------------------------------------
(* Data model *)

Coordinate(x, y) == [x |-> x, y |-> y]

CellType == {"Entrance", "Exit", "Wall", "Path"}

\* Cell::new
CellNew(coordinate, cell_type) ==
    [cell_type |-> cell_type,
     coordinate |-> coordinate,
     parent_coord |-> Coordinate(0, 0),
     manhattan_from_exit |-> 0,
     cost |-> 0]

\* Value of a local variable that has not been assigned yet.
NoCell == CellNew(Coordinate(0, 0), "Wall")

Abs(n) == IF n < 0 THEN -n ELSE n

RECURSIVE Reverse(_)
Reverse(s) == IF s = <<>> THEN <<>> ELSE Append(Reverse(Tail(s)), Head(s))

-----------------------------------------------------------------------------
(* Grid::new *)

Whitespace == {" ", "\n"}

\* String::replace(' ', "")
RemoveSpaces(s) == SelectSeq(s, LAMBDA c : c # " ")

RECURSIVE TrimStart(_)
TrimStart(s) ==
    IF s # <<>> /\ Head(s) \in Whitespace THEN TrimStart(Tail(s)) ELSE s

RECURSIVE TrimEnd(_)
TrimEnd(s) ==
    IF s # <<>> /\ s[Len(s)] \in Whitespace
    THEN TrimEnd(SubSeq(s, 1, Len(s) - 1))
    ELSE s

\* str::trim
Trim(s) == TrimEnd(TrimStart(s))

\* str::lines: split at every "\n"; a final empty line is not produced.
RECURSIVE Lines(_)
Lines(s) ==
    IF s = <<>> THEN <<>>
    ELSE IF \E i \in 1..Len(s) : s[i] = "\n"
         THEN LET i == CHOOSE k \in 1..Len(s) :
                          s[k] = "\n" /\ \A j \in 1..(k - 1) : s[j] # "\n"
              IN  <<SubSeq(s, 1, i - 1)>> \o Lines(SubSeq(s, i + 1, Len(s)))
         ELSE <<s>>

\* maze_as_vec
MazeAsVec(t) == Lines(Trim(RemoveSpaces(t)))

\* The test that makes a '-' a boundary opening (line 77).
OnEdge(row, column, w, h) ==
    row = 0 \/ row = h - 1 \/ column = 0 \/ column = w - 1

\* The match on one character (lines 75-98); acc holds cells,
\* exit_coordinates and entrance_found.
ScanChar(ch, row, column, w, h, acc) ==
    LET coord == Coordinate(column, row) IN
    IF ch = "-" THEN
        IF OnEdge(row, column, w, h) THEN
            [cells |-> Append(acc.cells,
                              CellNew(coord, IF ~acc.entrance_found
                                             THEN "Entrance" ELSE "Exit")),
             exit_coordinates |-> Append(acc.exit_coordinates, coord),
             entrance_found |-> TRUE]
        ELSE [acc EXCEPT !.cells = Append(@, CellNew(coord, "Path"))]
    ELSE IF ch = "#" THEN
        [acc EXCEPT !.cells = Append(@, CellNew(coord, "Wall"))]
    ELSE acc

\* The inner loop over the characters of one row (line 74).
RECURSIVE ScanRow(_, _, _, _, _, _)
ScanRow(chars, row, column, w, h, acc) ==
    IF column >= Len(chars) THEN acc
    ELSE ScanRow(chars, row, column + 1, w, h,
                 ScanChar(chars[column + 1], row, column, w, h, acc))

\* The outer loop over the rows (line 73).
RECURSIVE ScanRows(_, _, _, _, _)
ScanRows(rows, row, w, h, acc) ==
    IF row >= Len(rows) THEN acc
    ELSE ScanRows(rows, row + 1, w, h,
                  ScanRow(rows[row + 1], row, 0, w, h, acc))

\* Lines 101-106 without the unwraps: the vector is reversed and the entrance
\* and then the exit are popped from its end.
PickEndpointsNoReverse(exit_coordinates) ==
    LET n == Len(exit_coordinates)
    IN  [entrance_location |-> exit_coordinates[n],
         exit_location |-> exit_coordinates[n - 1]]

PickEndpoints(exit_coordinates) ==
    LET reversed == Reverse(exit_coordinates)
        n == Len(reversed)
    IN  [entrance_location |-> reversed[n],
         exit_location |-> reversed[n - 1]]

\* Grid::new as a function of the file.  result is "Err" when the ? of
\* line 62 returns the error of read_to_string, "Panicked" when the
\* constructor panics: maze_as_vec[0] on an empty vector (line 66) or
\* unwrap() of a pop() from an exhausted exit_coordinates (lines 105-106).
GridNew(r, t) ==
    LET maze_as_vec == MazeAsVec(t)
        NoGrid(res) == [result |-> res, width |-> 0, height |-> 0,
                        entrance_location |-> Coordinate(0, 0),
                        exit_location |-> Coordinate(0, 0), cells |-> <<>>]
    IN  IF ~r THEN NoGrid("Err")
        ELSE IF maze_as_vec = <<>> THEN NoGrid("Panicked")
        ELSE
        LET w == Len(maze_as_vec[1])
            h == Len(maze_as_vec)
            scanned == ScanRows(maze_as_vec, 0, w, h,
                                [cells |-> <<>>, exit_coordinates |-> <<>>,
                                 entrance_found |-> FALSE])
            picked == PickEndpoints(scanned.exit_coordinates)
        IN  IF Len(scanned.exit_coordinates) < 2 THEN NoGrid("Panicked")
            ELSE [result |-> "Ok", width |-> w, height |-> h,
                  entrance_location |-> picked.entrance_location,
                  exit_location |-> picked.exit_location,
                  cells |-> scanned.cells]

-----------------------------------------------------------------------------
(* main: the search *)

\* Index of a coordinate in maze.cells, 1-based.
Index(c, w) == c.y * w + c.x + 1

\* The ordering without the reverse() of lines 28 and 33: greatest cost first.
PopCandidatesGreatest(heap) == {c \in heap : \A d \in heap : c.cost >= d.cost}

\* BinaryHeap::pop under impl Ord for Cell: an entry of greatest priority,
\* that is of least cost; which of several equal ones is not determined by
\* the ordering.
PopCandidates(heap) == {c \in heap : \A d \in heap : c.cost <= d.cost}

\* The neighbours vector without its fourth push.
NeighboursNoDown(c, w, h) ==
    (IF c.x > 0 THEN <<Coordinate(c.x - 1, c.y)>> ELSE <<>>)
    \o (IF c.x < w - 1 THEN <<Coordinate(c.x + 1, c.y)>> ELSE <<>>)
    \o (IF c.y > 0 THEN <<Coordinate(c.x, c.y - 1)>> ELSE <<>>)

\* The neighbours vector of lines 139-151, in push order.
Neighbours(c, w, h) ==
    (IF c.x > 0 THEN <<Coordinate(c.x - 1, c.y)>> ELSE <<>>)
    \o (IF c.x < w - 1 THEN <<Coordinate(c.x + 1, c.y)>> ELSE <<>>)
    \o (IF c.y > 0 THEN <<Coordinate(c.x, c.y - 1)>> ELSE <<>>)
    \o (IF c.y < h - 1 THEN <<Coordinate(c.x, c.y + 1)>> ELSE <<>>)

\* manhattan_from_exit as computed at line 180.
Manhattan(c, e) == Abs(c.x - e.x) + Abs(c.y - e.y)

\* tentative_cost of line 172.
TentativeCost(cur) == cur.cost + 1

\* The condition of line 177 with <= for <.
ShouldUpdateOrEqual(neighbour_cell, tentative_cost, heap) ==
    ~(neighbour_cell \in heap) \/ tentative_cost <= neighbour_cell.cost

\* The condition of line 177 taken as always true.
ShouldUpdateAlways(neighbour_cell, tentative_cost, heap) == TRUE

\* The condition of line 177.
ShouldUpdate(neighbour_cell, tentative_cost, heap) ==
    ~(neighbour_cell \in heap) \/ tentative_cost < neighbour_cell.cost

\* The test of line 164 without its first disjunct.
SkippedEntranceOnly(neighbour_cell) == neighbour_cell.cell_type = "Entrance"

\* The test of line 164: walls and the entrance are skipped.
Skipped(neighbour_cell) == neighbour_cell.cell_type \in {"Wall", "Entrance"}

\* The test of line 156 left out: no neighbour counts as closed.
InClosedSetNever(neighbour, closed) == FALSE

\* The test of line 156.
InClosedSet(neighbour, closed) == neighbour \in closed

\* The body of the loop over neighbours (lines 155-187) for one neighbour.
\* st holds cells, open_set, closed_set and ok (FALSE after an index out of
\* bounds at line 163).
VisitNeighbour(neighbour, cur, w, exit, st) ==
    IF ~st.ok THEN st
    ELSE IF InClosedSet(neighbour, st.closed_set) THEN st
    ELSE IF Index(neighbour, w) > Len(st.cells) THEN [st EXCEPT !.ok = FALSE]
    ELSE
    LET i == Index(neighbour, w)
        neighbour_cell == st.cells[i]
        tentative_cost == TentativeCost(cur)
    IN  IF Skipped(neighbour_cell) THEN st
        ELSE IF ShouldUpdate(neighbour_cell, tentative_cost, st.open_set) THEN
            LET updated == [neighbour_cell EXCEPT
                               !.parent_coord = cur.coordinate,
                               !.cost = tentative_cost,
                               !.manhattan_from_exit =
                                   Manhattan(neighbour_cell.coordinate, exit)]
                cells2 == [st.cells EXCEPT ![i] = updated]
            IN  IF ~(updated \in st.open_set)
                THEN [st EXCEPT !.cells = cells2,
                                !.open_set = @ \cup {updated},
                                !.closed_set = @ \ {updated.coordinate}]
                ELSE [st EXCEPT !.cells = cells2]
        ELSE st

\* The loop over neighbours (line 154); s is the state after the first
\* neighbour, with which the rest are visited.
RECURSIVE VisitAll(_, _, _, _, _)
VisitAll(neighbours, cur, w, exit, st) ==
    IF neighbours = <<>> THEN st
    ELSE CHOOSE r \in { VisitAll(Tail(neighbours), cur, w, exit, s) :
                          s \in {VisitNeighbour(Head(neighbours), cur, w, exit, st)} } : TRUE

-----------------------------------------------------------------------------
(* Inputs *)

RECURSIVE JoinRows(_)
JoinRows(rows) ==
    IF rows = <<>> THEN <<>>
    ELSE IF Len(rows) = 1 THEN rows[1]
    ELSE rows[1] \o <<"\n">> \o JoinRows(Tail(rows))

\* Rectangular mazes of '-' and '#' of up to MaxCells cells.
RectMazes ==
    UNION { IF w * h <= MaxCells
            THEN { JoinRows(rows) : rows \in [1..h -> [1..w -> {"-", "#"}]] }
            ELSE {} :
            w \in 1..MaxCells, h \in 1..MaxCells }

Alphabet == {"-", "#", "\n", " ", "x"}

\* Any file content of up to MaxTextLen characters.
RawTexts == UNION { [1..n -> Alphabet] : n \in 0..MaxTextLen }

-----------------------------------------------------------------------------
(* State machine *)

InitWith(texts) ==
    /\ \/ readable = TRUE /\ text \in texts
       \/ readable = FALSE /\ text = <<>>
    /\ result = "None"
    /\ pc = "start"
    /\ width = 0
    /\ height = 0
    /\ entrance_location = Coordinate(0, 0)
    /\ exit_location = Coordinate(0, 0)
    /\ cells = <<>>
    /\ open_set = {}
    /\ closed_set = {}
    /\ current_cell = NoCell
    /\ bt_cell = NoCell
    /\ path = <<>>
    /\ out = <<>>

\* The file is unreadable, or holds a rectangular maze or any short text.
Init == InitWith(RectMazes \cup RawTexts)

\* Line 119: Grid::new(...).unwrap()
Build ==
    /\ pc = "start"
    /\ LET g == GridNew(readable, text) IN
       /\ result' = g.result
       /\ IF g.result = "Ok"
          THEN /\ pc' = "built"
               /\ width' = g.width
               /\ height' = g.height
               /\ entrance_location' = g.entrance_location
               /\ exit_location' = g.exit_location
               /\ cells' = g.cells
               /\ out' = Append(out, "Grid constructed. ")
          ELSE /\ pc' = "panic"
               /\ UNCHANGED <<grid, out>>
    /\ UNCHANGED <<input, open_set, closed_set, current_cell, bt_cell, path>>

\* Lines 123-128: the collections, the entrance cell, the first push.
Begin ==
    /\ pc = "built"
    /\ IF Index(entrance_location, width) <= Len(cells)
       THEN /\ current_cell' = cells[Index(entrance_location, width)]
            /\ open_set' = {cells[Index(entrance_location, width)]}
            /\ pc' = "search"
       ELSE /\ pc' = "panic"
            /\ UNCHANGED <<current_cell, open_set>>
    /\ UNCHANGED <<input, result, grid, closed_set, bt_cell, path, out>>

\* Lines 190-192, run when the while loop of line 129 is left.
LeaveLoop ==
    /\ out' = Append(out, "Solution found. ")
    /\ path' = <<>>
    /\ IF Index(exit_location, width) <= Len(cells)
       THEN /\ bt_cell' = cells[Index(exit_location, width)]
            /\ pc' = "backtrack"
       ELSE /\ pc' = "panic"
            /\ UNCHANGED bt_cell

\* Number of steps after which the model stops following a loop: one more
\* than the number of cells a chain of cells without repetition has.  A cost
\* or a path of this size is longer than any simple path in the grid.
StepCap == (IF width * height > Len(cells) THEN width * height ELSE Len(cells)) + 1

\* The iteration without the test of line 133: the exit is expanded too.
ExpandNoExitTest ==
    /\ pc = "search"
    /\ \E c \in PopCandidates(open_set) :
        /\ c.cost < StepCap
        /\ \E st \in { VisitAll(Neighbours(c.coordinate, width, height), c,
                                 width, exit_location,
                                 [cells |-> cells,
                                  open_set |-> open_set \ {c},
                                  closed_set |-> closed_set \cup {c.coordinate},
                                  ok |-> TRUE]) } :
               /\ current_cell' = c
               /\ cells' = st.cells
               /\ open_set' = st.open_set
               /\ closed_set' = st.closed_set
               /\ pc' = IF st.ok THEN "search" ELSE "panic"
    /\ UNCHANGED <<input, result, width, height, entrance_location, exit_location,
                   bt_cell, path, out>>

\* One iteration of the while loop that pops a cell other than the exit
\* (lines 132-188).
Expand ==
    /\ pc = "search"
    /\ \E c \in PopCandidates(open_set) :
        /\ c.coordinate # exit_location
        /\ c.cost < StepCap
        /\ \E st \in { VisitAll(Neighbours(c.coordinate, width, height), c,
                                 width, exit_location,
                                 [cells |-> cells,
                                  open_set |-> open_set \ {c},
                                  closed_set |-> closed_set \cup {c.coordinate},
                                  ok |-> TRUE]) } :
               /\ current_cell' = c
               /\ cells' = st.cells
               /\ open_set' = st.open_set
               /\ closed_set' = st.closed_set
               /\ pc' = IF st.ok THEN "search" ELSE "panic"
    /\ UNCHANGED <<input, result, width, height, entrance_location, exit_location,
                   bt_cell, path, out>>

\* The iteration that pops the exit and breaks (lines 132-136), then 190-192.
PopExit ==
    /\ pc = "search"
    /\ \E c \in PopCandidates(open_set) :
        /\ c.coordinate = exit_location
        /\ current_cell' = c
        /\ open_set' = open_set \ {c}
    /\ LeaveLoop
    /\ UNCHANGED <<input, result, grid, closed_set>>

\* The loop condition of line 129 fails: open_set is empty; then 190-192.
Exhausted ==
    /\ pc = "search"
    /\ open_set = {}
    /\ LeaveLoop
    /\ UNCHANGED <<input, result, grid, open_set, closed_set, current_cell>>

\* One iteration of the backtrack loop (lines 194-197).
BacktrackStep ==
    /\ pc = "backtrack"
    /\ bt_cell.coordinate # entrance_location
    /\ Len(path) < StepCap
    /\ path' = Append(path, bt_cell.coordinate)
    /\ IF Index(bt_cell.parent_coord, width) <= Len(cells)
       THEN /\ bt_cell' = cells[Index(bt_cell.parent_coord, width)]
            /\ pc' = "backtrack"
       ELSE /\ pc' = "panic"
            /\ UNCHANGED bt_cell
    /\ UNCHANGED <<input, result, grid, open_set, closed_set, current_cell, out>>

\* The backtrack loop ends (lines 198-200).
BacktrackDone ==
    /\ pc = "backtrack"
    /\ bt_cell.coordinate = entrance_location
    /\ path' = Reverse(Append(path, entrance_location))
    /\ out' = Append(out, "Path length")
    /\ pc' = "done"
    /\ UNCHANGED <<input, result, grid, open_set, closed_set, current_cell, bt_cell>>

Next ==
    \/ Build
    \/ Begin
    \/ Expand
    \/ PopExit
    \/ Exhausted
    \/ BacktrackStep
    \/ BacktrackDone

Spec == Init /\ [][Next]_vars

\* main runs on one thread without suspension points: the while loop of
\* line 129 goes on as long as it can take a step.
SpecFair == Spec /\ WF_vars(Expand \/ PopExit \/ Exhausted)

-----------------------------------------------------------------------------
(* Vocabulary of the properties *)

\* The rows are non-empty, of one length, and made of '-' and '#' only.
WellFormed(t) ==
    LET rows == MazeAsVec(t) IN
    /\ rows # <<>>
    /\ \A r \in 1..Len(rows) :
        /\ Len(rows[r]) = Len(rows[1])
        /\ \A k \in 1..Len(rows[r]) : rows[r][k] \in {"-", "#"}

\* The coordinates of the '-' characters of the text.
OpenCoords(t) ==
    LET rows == MazeAsVec(t) IN
    UNION { { Coordinate(k - 1, r - 1) : k \in {j \in 1..Len(rows[r]) : rows[r][j] = "-"} } :
            r \in 1..Len(rows) }

Adjacent(a, b) ==
    \/ a.y = b.y /\ (a.x = b.x + 1 \/ b.x = a.x + 1)
    \/ a.x = b.x /\ (a.y = b.y + 1 \/ b.y = a.y + 1)

\* Reference breadth-first search: the number of edges of a shortest
\* 4-connected walk from the frontier to target, -1 when there is none.
RECURSIVE RefBfs(_, _, _, _, _)
RefBfs(open, frontier, seen, target, d) ==
    IF target \in frontier THEN d
    ELSE LET next == {c \in open \ seen : \E f \in frontier : Adjacent(c, f)}
         IN  IF next = {} THEN -1
             ELSE RefBfs(open, next, seen \cup next, target, d + 1)

TrueDistance ==
    RefBfs(OpenCoords(text), {entrance_location}, {entrance_location},
           exit_location, 0)

LoopLeft == pc \in {"backtrack", "done"}

\* The while loop was left by the break of line 135.
ExitPopped == LoopLeft /\ current_cell.coordinate = exit_location

\* The while loop was left because open_set was empty.
FrontierExhausted == LoopLeft /\ current_cell.coordinate # exit_location

ExitCell == cells[Index(exit_location, width)]

IsWallCoord(c) ==
    \E i \in 1..Len(cells) :
        cells[i].coordinate = c /\ cells[i].cell_type = "Wall"

Occurrences(s, e) == Cardinality({i \in 1..Len(s) : s[i] = e})

\* The '-' characters on the first or last row or on the first or last
\* column, the width being the length of the first row.
EdgeOpenings(t) ==
    LET rows == MazeAsVec(t) IN
    IF rows = <<>> THEN {}
    ELSE UNION { { Coordinate(k - 1, r - 1) :
                     k \in {j \in 1..Len(rows[r]) :
                              /\ rows[r][j] = "-"
                              /\ (r = 1 \/ r = Len(rows) \/ j = 1 \/ j = Len(rows[1]))} } :
                 r \in 1..Len(rows) }

\* The element of a non-empty set of coordinates that a row-major scan meets first.
RowMajorFirst(S) ==
    CHOOSE c \in S : \A d \in S : c.y < d.y \/ (c.y = d.y /\ c.x <= d.x)

FirstOpening(t) == RowMajorFirst(EdgeOpenings(t))

SecondOpening(t) == RowMajorFirst(EdgeOpenings(t) \ {FirstOpening(t)})

\* The rows do not all have the length of the first.
Ragged(t) ==
    LET rows == MazeAsVec(t) IN
    \E r \in 1..Len(rows) : Len(rows[r]) # Len(rows[1])

TypesAt(c) == {cells[i].cell_type : i \in {j \in 1..Len(cells) : cells[j].coordinate = c}}

\* The maze of the first example scenario.
ExampleMaze == JoinRows(<<<<"-", "#", "-">>, <<"-", "-", "-">>, <<"-", "#", "-">>>>)

Connects(p, a, b) ==
    /\ Len(p) >= 2
    /\ p[1] = a
    /\ p[Len(p)] = b
    /\ \A i \in 1..(Len(p) - 1) : Adjacent(p[i], p[i + 1])

-----------------------------------------------------------------------------
(* Properties *)

\* C1: on a well-formed maze whose exit is reachable from the entrance, the
\* search leaves the loop by popping the exit with cost equal to the true
\* shortest distance d, and the path built has exactly d + 1 coordinates.
C1_ShortestPath ==
    (LoopLeft /\ WellFormed(text) /\ TrueDistance >= 0) =>
        /\ ExitPopped
        /\ current_cell.cost = TrueDistance
        /\ ExitCell.cost = TrueDistance
        /\ (pc = "done" => Len(path) = TrueDistance + 1)

\* A path was returned for a maze whose shortest route has four edges and
\* is not the only route.
C1_Witness ==
    /\ pc = "done"
    /\ WellFormed(text)
    /\ TrueDistance = 4
    /\ Cardinality(OpenCoords(text)) >= 8

\* C2: when the frontier empties without the exit having been popped, no
\* solution is reported and no path is produced.
C2_NoPathFound ==
    FrontierExhausted =>
        /\ \A i \in 1..Len(out) : out[i] # "Solution found. "
        /\ pc # "backtrack"
        /\ pc # "done"

\* C3: the backtrack loop takes at most width * height parent-link steps;
\* stated for the grids of well-formed mazes, where width * height is the
\* number of cells.
C3_BacktrackBounded ==
    (pc = "backtrack" /\ WellFormed(text)) => Len(path) <= width * height

\* C4: when the exit was popped, the path has cost(exit) + 1 coordinates and
\* consecutive coordinates are 4-adjacent.
C4_PathLengthAndAdjacency ==
    (pc = "done" /\ ExitPopped) =>
        /\ Len(path) = ExitCell.cost + 1
        /\ \A i \in 1..(Len(path) - 1) : Adjacent(path[i], path[i + 1])

\* C5: the returned path holds no coordinate of a Wall cell.
C5_NoWallInPath ==
    pc = "done" => \A i \in 1..Len(path) : ~IsWallCoord(path[i])

\* C6: the returned path starts at the entrance, ends at the exit, and holds
\* each of the two exactly once.
C6_Endpoints ==
    pc = "done" =>
        /\ path[1] = entrance_location
        /\ path[Len(path)] = exit_location
        /\ Occurrences(path, entrance_location) = 1
        /\ Occurrences(path, exit_location) = 1

\* C7: for a text with at least two boundary openings the grid is built,
\* entrance_location is the first boundary opening in row-major order and
\* exit_location the second, the cell of the entrance coordinate is typed
\* Entrance and the cell of the exit coordinate Exit, and exactly one cell
\* is typed Entrance; on a well-formed text these are the cells found at
\* the two locations' indices.
C7_EntranceExit ==
    (result # "None" /\ readable /\ Cardinality(EdgeOpenings(text)) >= 2) =>
        /\ result = "Ok"
        /\ entrance_location = FirstOpening(text)
        /\ exit_location = SecondOpening(text)
        /\ TypesAt(entrance_location) = {"Entrance"}
        /\ TypesAt(exit_location) = {"Exit"}
        /\ Cardinality({i \in 1..Len(cells) : cells[i].cell_type = "Entrance"}) = 1
        /\ WellFormed(text) =>
            /\ cells[Index(entrance_location, width)].cell_type = "Entrance"
            /\ cells[Index(entrance_location, width)].coordinate = entrance_location
            /\ ExitCell.cell_type = "Exit"
            /\ ExitCell.coordinate = exit_location

\* A grid was built from a text of two rows or more with three boundary
\* openings or more, the first two of them on different rows.
C7_Witness ==
    /\ result = "Ok"
    /\ Cardinality(EdgeOpenings(text)) >= 3
    /\ entrance_location.y # exit_location.y
    /\ entrance_location.x > exit_location.x

\* C8: for an empty text, or one with fewer than two boundary openings,
\* Grid::new returns an Err value.
C8_ParseErrorReturned ==
    (result # "None" /\ readable /\ Cardinality(EdgeOpenings(text)) < 2) =>
        result = "Err"

\* C9: for a text with rows of differing length, Grid::new returns an Err
\* value, no grid is built and no search runs.
C9_RaggedRejected ==
    (result # "None" /\ readable /\ Ragged(text)) =>
        /\ result = "Err"
        /\ cells = <<>>
        /\ pc \notin {"built", "search", "backtrack", "done"}

\* C10 as stated: for the example maze the entrance is (1,0) and the exit
\* (0,1), and the path returned connects them without a Wall cell.
C10_ExampleAsStated ==
    (text = ExampleMaze /\ readable /\ result # "None") =>
        /\ result = "Ok"
        /\ entrance_location = Coordinate(1, 0)
        /\ exit_location = Coordinate(0, 1)
        /\ pc = "done" =>
            /\ Connects(path, Coordinate(1, 0), Coordinate(0, 1))
            /\ \A i \in 1..Len(path) : ~IsWallCoord(path[i])

\* C10 amended: for the example maze the entrance is (0,0) and the exit
\* (2,0), and the path returned connects them without a Wall cell.
C10_Example ==
    (text = ExampleMaze /\ readable /\ result # "None") =>
        /\ result = "Ok"
        /\ entrance_location = Coordinate(0, 0)
        /\ exit_location = Coordinate(2, 0)
        /\ pc = "done" =>
            /\ Connects(path, Coordinate(0, 0), Coordinate(2, 0))
            /\ \A i \in 1..Len(path) : ~IsWallCoord(path[i])

C10_Witness ==
    text = ExampleMaze /\ readable /\ pc = "done" /\ ExitPopped

-----------------------------------------------------------------------------
(* Vocabulary of the search properties *)

\* cost + heuristic of a frontier entry, the heuristic being the Manhattan
\* distance to exit_location.
Estimate(c) == c.cost + Manhattan(c.coordinate, exit_location)

\* A step from this state is an iteration of the while loop that pops.
AtPop == pc = "search" /\ open_set # {}

\* The cell as Cell::new made it.
Untouched(c) == c = CellNew(c.coordinate, c.cell_type)

\* The cells the search must leave alone.
WallOrEntrance(c) == c.cell_type \in {"Wall", "Entrance"}

\* The cells of the grid that carry coordinate co.
CellsAt(co) == {cells[i] : i \in {j \in 1..Len(cells) : cells[j].coordinate = co}}

\* The number of parent links from cell c to the entrance, -1 when the
\* entrance is not met within fuel links.
RECURSIVE ChainSteps(_, _)
ChainSteps(c, fuel) ==
    IF c.coordinate = entrance_location THEN 0
    ELSE IF fuel = 0 \/ Index(c.parent_coord, width) > Len(cells) THEN -1
    ELSE LET r == ChainSteps(cells[Index(c.parent_coord, width)], fuel - 1)
         IN  IF r < 0 THEN -1 ELSE r + 1

-----------------------------------------------------------------------------
(* Properties of the search *)

\* C11: at every pop the cell removed has the least cost + heuristic of the
\* entries of the frontier.
C11_PopsLeastEstimate ==
    [][AtPop => \A d \in open_set : Estimate(current_cell') <= Estimate(d)]_vars

C13_ParentInvariant ==
    result = "Ok" =>
        \A i \in 1..Len(cells) :
            cells[i].cost > 0 =>
                /\ Adjacent(cells[i].coordinate, cells[i].parent_coord)
                /\ ~IsWallCoord(cells[i].parent_coord)
                /\ cells[i].parent_coord \in closed_set
                /\ CellsAt(cells[i].parent_coord) # {}
                /\ \A p \in CellsAt(cells[i].parent_coord) : cells[i].cost = p.cost + 1
                /\ ChainSteps(cells[i], Len(cells)) = cells[i].cost

\* C14: on a well-formed grid every pop takes a coordinate not popped
\* before, so that at most width * height pops happen, and the loop is left:
\* the exit is popped or the frontier is empty.
C14_SearchTerminates ==
    /\ [][(AtPop /\ WellFormed(text)) => current_cell'.coordinate \notin closed_set]_vars
    /\ []((result = "Ok" /\ WellFormed(text)) =>
            Cardinality(closed_set) + (IF ExitPopped THEN 1 ELSE 0) <= width * height)
    /\ ((pc = "search" /\ WellFormed(text)) ~> LoopLeft)

C14_Witness ==
    LoopLeft /\ WellFormed(text) /\ Cardinality(closed_set) >= 6

\* C15: expansion pushes no Wall and no Entrance cell and puts no coordinate
\* of such a cell into the visited set (the only such entries are the cell
\* of the initial push and its coordinate), and the cost, parent_coord and
\* manhattan_from_exit of every Wall and Entrance cell stay as constructed.
C15_WallsAndEntranceUntouched ==
    /\ [][pc = "search" =>
            /\ \A c \in open_set' \ open_set : ~WallOrEntrance(c)
            /\ \A co \in closed_set' \ closed_set :
                   (\E c \in CellsAt(co) : WallOrEntrance(c)) => Untouched(current_cell')]_vars
    /\ [](result = "Ok" =>
            /\ \A i \in 1..Len(cells) : WallOrEntrance(cells[i]) => Untouched(cells[i])
            /\ \A c \in open_set : WallOrEntrance(c) => Untouched(c))

\* The search is over on a well-formed maze where an expanded cell other
\* than the entrance has the entrance for a neighbour and one has a Wall.
C15_Witness ==
    /\ pc = "done"
    /\ WellFormed(text)
    /\ \E co \in closed_set \ {entrance_location} : Adjacent(co, entrance_location)
    /\ \E co \in closed_set : \E i \in 1..Len(cells) :
           cells[i].cell_type = "Wall" /\ Adjacent(co, cells[i].coordinate)

\* C16: the pop of the exit ends the loop without expanding it: the exit
\* coordinate is never in the visited set, the popping step changes neither
\* the cells nor the visited set, and no cell changes afterwards.
C16_StopsAtExit ==
    /\ [](result = "Ok" => exit_location \notin closed_set)
    /\ [][(AtPop /\ current_cell'.coordinate = exit_location) =>
            /\ pc' # "search"
            /\ cells' = cells
            /\ closed_set' = closed_set]_vars
    /\ [][(pc \notin {"start", "built", "search"}) => cells' = cells]_vars

\* The exit was popped while other cells were still waiting in the frontier.
C16_Witness ==
    pc = "done" /\ ExitPopped /\ open_set # {} /\ Cardinality(closed_set) >= 3

\* C17: a grid returned by Grid::new has width * height cells and the cell
\* at index row * width + column has the coordinate (column, row).
C17_GridAligned ==
    result = "Ok" =>
        /\ Len(cells) = width * height
        /\ \A i \in 1..Len(cells) :
               cells[i].coordinate = Coordinate((i - 1) % width, (i - 1) \div width)

\* C18: on a well-formed grid every frontier entry equals the grid's cell of
\* its coordinate (hence one entry per coordinate), a cell is pushed and
\* written only while still as constructed (hence once), and the costs of
\* successive pops do not decrease.
C18_NoStaleCopies ==
    /\ []((result = "Ok" /\ WellFormed(text)) =>
            \A c \in open_set : c = cells[Index(c.coordinate, width)])
    /\ [][(pc = "search" /\ WellFormed(text)) =>
            /\ \A c \in open_set' \ open_set :
                   /\ Untouched(cells[Index(c.coordinate, width)])
                   /\ c.coordinate \notin closed_set'
            /\ \A i \in 1..Len(cells) :
                   cells'[i] # cells[i] => Untouched(cells[i]) /\ ~Untouched(cells'[i])]_vars
    /\ [][(AtPop /\ WellFormed(text)) => current_cell'.cost >= current_cell.cost]_vars

\* Two cells wait in the frontier after three expansions, one of them with a
\* second expanded neighbour that did not rewrite it.
C18_Witness ==
    /\ pc = "search"
    /\ WellFormed(text)
    /\ Cardinality(open_set) >= 2
    /\ Cardinality(closed_set) >= 3
    /\ \E c \in open_set : \E co \in closed_set :
           Adjacent(co, c.coordinate) /\ co # c.parent_coord

====
